---- MODULE Spec2Model ----
(***************************************************************************)
(* Model of crates/prefab/src/save.rs: the prefab save pipelines.          *)
(*                                                                         *)
(* One frame of the host runs First (the event buffers of PrefabMade are   *)
(* rotated), StateTransition (OnEnter(SaveState::Save) runs the            *)
(* whole-scene chain prepare_children, apply_deferred, serialize_scene,    *)
(* delete_prepared_children) and Update (the per-entity chain              *)
(* prepare_children, apply_deferred, serialize_prefab,                     *)
(* delete_prepared_children, which runs every frame).  Commands queued by  *)
(* a system are applied at the next apply_deferred or at the end of the    *)
(* schedule.  The build is the one with feature "editor" enabled, so the   *)
(* toast events of serialize_scene are sent.                               *)
(***************************************************************************)
EXTENDS Integers, Sequences, FiniteSets, TLC

\* ---------------------------------------------------------------- bounds
NumEntities == 3
MaxInputs == 2
MaxLinks == 3
MaxMutations == 1
MaxWrites == 2

Entity == 1..NumEntities

\* ------------------------------------------------------- component types
ChildrenPrefabType == "ChildrenPrefab"
\* Types some other plugin may register in the EditorRegistry.  "Opaque"
\* stands for a reflected component the RON serializer rejects.
Registrable == {"Name", "PrefabMarker", "Opaque"}
ComponentTypes ==
    {"PrefabMarker", "SceneAutoChild", "Name", "Opaque", "Children", ChildrenPrefabType}

Names == <<"foo", "bar">>

VARIABLES
    world,      \* the live graph: entity -> its attached data
    registry,   \* EditorRegistry: the registered type identifiers
    config,     \* SaveConfig.path
    state,      \* State<SaveState>
    next,       \* NextState<SaveState>: "None", "Save" or "Idle"
    pc,         \* position of the host in the frame
    events_a,   \* Events<PrefabMade>: the older buffer
    events_b,   \* Events<PrefabMade>: the buffer that receives
    cmds,       \* Commands queued and not yet applied
    tasks,      \* writes spawned on the IoTaskPool, in spawn order
    cache,      \* PrefabMemoryCache.scene
    log,        \* warn!/error! lines, in order
    toasts,     \* ToastMessage events, in order
    builds,     \* history: one record per scene built, in order
    snap,       \* history: the live graph when the current pass started
    sent,       \* history: number of PrefabMade events sent
    saves,      \* history: number of external requests to save
    entries,    \* history: number of times OnEnter(Save) started
    runs,       \* history: number of whole-scene passes completed
    grown,      \* history: number of registrations by other plugins
    done,       \* history: the chain that completed last: "none", "scene", "prefab"
    files,      \* the file system: path -> Option<content>
    opened,     \* the spawned writes that have opened (and truncated) their file
    written,    \* the spawned writes that have returned, in order of completion
    mutated,    \* history: number of changes other systems made to the graph
    c_start,    \* add_children_recursive: the entity of the outermost call
    c_index,    \* add_children_recursive: children_iter
    c_stack,    \* add_children_recursive: the call stack, innermost call last
    c_out,      \* add_children_recursive: entities
    c_pc        \* add_children_recursive: "off", "run", "done" or "overflow"

hostVars == <<world, registry, config, state, next, pc, events_a, events_b, cmds,
              tasks, cache, log, toasts, builds, snap, sent, saves, entries, runs,
              grown, done>>
ioVars == <<files, opened, written, mutated>>
closureVars == <<c_start, c_index, c_stack, c_out, c_pc>>
vars == <<hostVars, ioVars, closureVars>>

\* ------------------------------------------------------------- Option<T>
None == <<>>
Some(x) == <<x>>

\* The entities of a set in ascending order (BTreeMap<Entity, _> key order).
Ordered(S) ==
    CHOOSE s \in [1..Cardinality(S) -> S] :
        \A i, j \in 1..Cardinality(S) : i < j => s[i] < s[j]

Range(s) == {s[i] : i \in 1..Len(s)}
Last(s) == s[Len(s)]

\* ------------------------------------------------------------ live graph
\* Whether entity e of graph w has a component of type t.
HasComponent(w, e, t) ==
    CASE t = "PrefabMarker" -> w[e].marker
      [] t = "SceneAutoChild" -> w[e].auto
      [] t = "Name" -> w[e].name # None
      [] t = "Opaque" -> w[e].opaque
      [] t = "Children" -> w[e].children # <<>>
      [] t = ChildrenPrefabType -> w[e].cp # None

\* Mutant of from_children: the children in ascending identifier order.
from_children_sorted(children) == Ordered(Range(children))

\* ChildrenPrefab::from_children: children.to_vec()
from_children(children) == [i \in 1..Len(children) |-> children[i]]

\* Mutant of map_entities: the mapped entities are collected into an ordered
\* set, which loses the order and the duplicates of the list.
map_entities_unordered(list, entity_mapper) ==
    Ordered({entity_mapper[list[i]] : i \in 1..Len(list)})

\* ChildrenPrefab::map_entities: every element through the mapper, in order.
map_entities(list, entity_mapper) ==
    [i \in 1..Len(list) |-> entity_mapper[list[i]]]

\* Commands: insert(ChildrenPrefab) and remove::<ChildrenPrefab>().
InsertCmd(e, v) == [op |-> "insert", entity |-> e, value |-> v]
RemoveCmd(e) == [op |-> "remove", entity |-> e, value |-> <<>>]

\* Mutant of ApplyOne: the remove command names Children instead of
\* ChildrenPrefab.
ApplyOneRemovesChildren(w, c) ==
    IF c.op = "insert"
    THEN [w EXCEPT ![c.entity].cp = Some(c.value)]
    ELSE [w EXCEPT ![c.entity].children = <<>>]

ApplyOne(w, c) ==
    IF c.op = "insert"
    THEN [w EXCEPT ![c.entity].cp = Some(c.value)]
    ELSE [w EXCEPT ![c.entity].cp = None]

RECURSIVE ApplyCommands(_, _)
ApplyCommands(w, cs) ==
    IF cs = <<>> THEN w ELSE ApplyCommands(ApplyOne(w, Head(cs)), Tail(cs))

\* Mutant of PrepareQuery: an entity that already holds a ChildrenPrefab is
\* skipped.
PrepareQueryUnprepared(w) ==
    {e \in Entity : w[e].marker /\ ~w[e].auto /\ w[e].children # <<>> /\ w[e].cp = None}

\* Query<(Entity, &Children), (With<PrefabMarker>, Without<SceneAutoChild>)>
PrepareQuery(w) ==
    {e \in Entity : w[e].marker /\ ~w[e].auto /\ w[e].children # <<>>}

\* Query<Entity, With<ChildrenPrefab>>
PreparedQuery(w) == {e \in Entity : w[e].cp # None}

\* Mutant of PrefabQuery: the Without<SceneAutoChild> filter is missing.
PrefabQueryWithAutoChildren(w) == {e \in Entity : w[e].marker}

\* query_filtered::<Entity, (With<PrefabMarker>, Without<SceneAutoChild>)>
PrefabQuery(w) == {e \in Entity : w[e].marker /\ ~w[e].auto}

\* Mutant of children_map: the query also has Without<SceneAutoChild>.
children_map_without_auto(w) ==
    [e \in {x \in Entity : w[x].marker /\ ~w[x].auto /\ w[x].children # <<>>} |->
        w[e].children]

\* query_filtered::<(Entity, &Children), With<PrefabMarker>>, as a HashMap
children_map(w) ==
    [e \in {x \in Entity : w[x].marker /\ w[x].children # <<>>} |-> w[e].children]

\* Mutant of add_children_recursive: each child is appended when its own
\* call begins (plain pre-order), not with its siblings.
RECURSIVE add_children_preorder(_, _, _)
RECURSIVE PreorderChildren(_, _, _, _)
add_children_preorder(children_iter, entity, entities) ==
    IF entity \in DOMAIN children_iter
    THEN PreorderChildren(children_iter, children_iter[entity], 1, entities)
    ELSE entities
PreorderChildren(children_iter, children, i, entities) ==
    IF i > Len(children)
    THEN entities
    ELSE PreorderChildren(children_iter, children, i + 1,
                          add_children_preorder(children_iter, children[i],
                                                Append(entities, children[i])))

\* add_children_recursive: append the children, then recurse into each.
RECURSIVE add_children_recursive(_, _, _)
RECURSIVE RecurseChildren(_, _, _, _)
add_children_recursive(children_iter, entity, entities) ==
    IF entity \in DOMAIN children_iter
    THEN RecurseChildren(children_iter, children_iter[entity], 1,
                         entities \o children_iter[entity])
    ELSE entities
RecurseChildren(children_iter, children, i, entities) ==
    IF i > Len(children)
    THEN entities
    ELSE RecurseChildren(children_iter, children, i + 1,
                         add_children_recursive(children_iter, children[i], entities))

\* -------------------------------------------------------- scene building
\* The allow-list: the type ids of the EditorRegistry, read at the call.
allow_types(reg) == reg

\* Mutant of ExtractEntity: allow_all() without the allow-list filter.
ExtractEntityUnfiltered(w, e, allow) ==
    [entity |-> e,
     types |-> {t \in ComponentTypes : HasComponent(w, e, t)},
     name |-> w[e].name,
     cp |-> w[e].cp]

\* One DynamicEntity: the components of e whose type the filter allows.
\* The entity keeps its world identifier.
ExtractEntity(w, e, allow) ==
    [entity |-> e,
     types |-> {t \in ComponentTypes : t \in allow /\ HasComponent(w, e, t)},
     name |-> IF "Name" \in allow THEN w[e].name ELSE None,
     cp |-> IF ChildrenPrefabType \in allow THEN w[e].cp ELSE None]

\* DynamicSceneBuilder: allow-list filter, extract_entities, build.  The
\* extracted entities are kept in a BTreeMap, so the scene lists each
\* selected entity once, in ascending identifier order.
BuildScene(w, selected, allow) ==
    LET order == Ordered(selected)
    IN [i \in 1..Len(order) |-> ExtractEntity(w, order[i], allow)]

\* serialize_ron: fails on a component the serializer rejects.
Encodable(scene) == \A i \in 1..Len(scene) : "Opaque" \notin scene[i].types
serialize_ron(scene) ==
    IF Encodable(scene)
    THEN [ok |-> TRUE, str |-> [ron |-> scene]]
    ELSE [ok |-> FALSE, str |-> [ron |-> <<>>]]

\* PrefabsPath::default().path
PrefabsDir == ".\\assets\\prefabs"
ScenePath == "test.ron"
PrefabPath(name) == PrefabsDir \o "\\" \o name \o ".scn.ron"

WriteTask(path, str) == [path |-> path, bytes |-> str]

\* History of one build: the path taken ("scene" or "prefab"), the entity
\* requested (0 for a whole-scene save), the entities handed to the builder,
\* the allow-list, the scene, the encoder's verdict and the sink.
BuildRecord(kind, request, entities, allow, scene, ok, cfg) ==
    [kind |-> kind, request |-> request, entities |-> entities,
     allow |-> allow, scene |-> scene, ok |-> ok, cfg |-> cfg]

\* ------------------------------------------------------------------ Init
\* The starting graphs.  The hierarchy is a pair (1 -> [2]), a star
\* (1 -> all the others, in ascending or descending order) or a chain
\* (1 -> [2], 2 -> [3], ...).  The entities are all prefab roots
\* (PrefabMarker), all plain, or all roots but entity 1 or 2, which is plain
\* or an auto child (PrefabMarker and SceneAutoChild).  The first entities
\* are named.  Optionally entity 2 carries an Opaque component, or entity 1
\* and the last entity, which has no children, each carry a ChildrenPrefab
\* left behind by a loaded prefab.
Shapes == {"pair", "star", "chain"}
Kinds == {"plain", "root", "auto"}

ParentOf(shape, e) ==
    CASE shape = "pair" -> IF e = 2 THEN 1 ELSE 0
      [] shape = "star" -> IF e = 1 THEN 0 ELSE 1
      [] shape = "chain" -> e - 1

KindMaps ==
    {[e \in Entity |-> "root"], [e \in Entity |-> "plain"]}
    \cup {[e \in Entity |-> IF e = k THEN odd ELSE "root"] :
            k \in {1, 2}, odd \in {"plain", "auto"}}

Reverse(s) == [i \in 1..Len(s) |-> s[Len(s) + 1 - i]]

ChildrenOf(shape, rev, e) ==
    LET asc == Ordered({c \in Entity : ParentOf(shape, c) = e})
    IN IF rev THEN Reverse(asc) ELSE asc

NameOf(e) == IF e <= Len(Names) THEN Some(Names[e]) ELSE None

MakeWorld(shape, rev, kind, extra) ==
    [e \in Entity |->
        [marker |-> kind[e] \in {"root", "auto"},
         auto |-> kind[e] = "auto",
         name |-> NameOf(e),
         opaque |-> extra = "opaque" /\ e = 2,
         children |-> ChildrenOf(shape, rev, e),
         cp |-> CASE extra = "stale" /\ e = 1 -> Some(<<2>>)
                  [] extra = "stale" /\ e = NumEntities -> Some(<<1>>)
                  [] OTHER -> None]]

Worlds(extra) ==
    {MakeWorld(shape, rev, kind, extra) :
        shape \in Shapes, rev \in BOOLEAN, kind \in KindMaps}

\* The EditorRegistry at start: ChildrenPrefab alone (registered by the
\* plugin), or with the types the other plugins register.
MinimalRegistry == {ChildrenPrefabType}
FullRegistry == {ChildrenPrefabType} \cup Registrable
Setups ==
    {<<"none", MinimalRegistry>>, <<"none", FullRegistry>>,
     <<"opaque", FullRegistry>>, <<"stale", MinimalRegistry>>}

NoPath == [kind |-> "None", path |-> ""]
SaveConfigs ==
    {NoPath, [kind |-> "File", path |-> ScenePath], [kind |-> "MemoryCache", path |-> ""]}

\* The storage paths a save can write to.
Paths == {ScenePath} \cup {PrefabPath(Names[i]) : i \in DOMAIN Names}

\* No write has touched the file system; no other system changed the graph.
IoIdle ==
    /\ files = [p \in Paths |-> None]
    /\ opened = {}
    /\ written = <<>>
    /\ mutated = 0

\* add_children_recursive is not being followed step by step.
ClosureIdle ==
    /\ c_start = 0
    /\ c_index = <<>>
    /\ c_stack = <<>>
    /\ c_out = <<>>
    /\ c_pc = "off"

HostInit ==
    /\ \E setup \in Setups :
        /\ world \in Worlds(setup[1])
        /\ registry = setup[2]
    /\ config = NoPath
    /\ state = "Idle"
    /\ next = "None"
    /\ pc = "First"
    /\ events_a = <<>>
    /\ events_b = <<>>
    /\ cmds = <<>>
    /\ tasks = <<>>
    /\ cache = None
    /\ log = <<>>
    /\ toasts = <<>>
    /\ builds = <<>>
    /\ snap = world
    /\ sent = 0
    /\ saves = 0
    /\ entries = 0
    /\ runs = 0
    /\ grown = 0
    /\ done = "none"

Init == HostInit /\ IoIdle /\ ClosureIdle

\* ------------------------------------------------------ the environment
\* Another system sends PrefabMade { entity }: before this frame's Update
\* (pc = "StateTransition") or after it (pc = "First").
SendPrefabMade(e) ==
    /\ pc \in {"First", "StateTransition"}
    /\ sent + saves + grown < MaxInputs
    /\ events_b' = Append(events_b, e)
    /\ sent' = sent + 1
    /\ UNCHANGED <<world, registry, config, state, next, pc, events_a, cmds, tasks,
                   cache, log, toasts, builds, snap, saves, entries, runs, grown, done,
                   ioVars, closureVars>>

\* The external trigger: with the machine Idle, set the SaveConfig and
\* request the transition Idle -> Save.
RequestSave(cfg) ==
    /\ pc = "First"
    /\ state = "Idle"
    /\ next = "None"
    /\ sent + saves + grown < MaxInputs
    /\ config' = cfg
    /\ next' = "Save"
    /\ saves' = saves + 1
    /\ UNCHANGED <<world, registry, state, pc, events_a, events_b, cmds, tasks, cache,
                   log, toasts, builds, snap, sent, entries, runs, grown, done,
                   ioVars, closureVars>>

\* Other plugins call app.editor_registry::<T>(): the registry grows.
RegisterTypes ==
    /\ pc = "First"
    /\ ~(Registrable \subseteq registry)
    /\ sent + saves + grown < MaxInputs
    /\ grown' = grown + 1
    /\ registry' = registry \cup Registrable
    /\ UNCHANGED <<world, config, state, next, pc, events_a, events_b, cmds, tasks,
                   cache, log, toasts, builds, snap, sent, saves, entries, runs, done,
                   ioVars, closureVars>>

\* ------------------------------------------------------------ the frame
\* First: event_update_system calls Events::update: the buffers swap and
\* the receiving buffer is cleared, so an event is held for two updates.
\* (Where the update is skipped in a frame an event is held longer.)
First ==
    /\ pc = "First"
    /\ events_a' = events_b
    /\ events_b' = <<>>
    /\ pc' = "StateTransition"
    /\ UNCHANGED <<world, registry, config, state, next, cmds, tasks, cache, log,
                   toasts, builds, snap, sent, saves, entries, runs, grown, done,
                   ioVars, closureVars>>

\* StateTransition: apply_state_transition takes NextState; a state that
\* differs from the current one is entered, and entering Save runs the
\* OnEnter(SaveState::Save) chain.
StateTransition ==
    /\ pc = "StateTransition"
    /\ next' = "None"
    /\ IF next # "None" /\ next # state
       THEN /\ state' = next
            /\ IF next = "Save"
               THEN pc' = "S_prepare" /\ entries' = entries + 1
               ELSE pc' = "U_prepare" /\ entries' = entries
       ELSE /\ state' = state
            /\ pc' = "U_prepare"
            /\ entries' = entries
    /\ UNCHANGED <<world, registry, config, events_a, events_b, cmds, tasks, cache,
                   log, toasts, builds, snap, sent, saves, runs, grown, done,
                   ioVars, closureVars>>

\* The order of the two chains.
NextPc(p) ==
    CASE p = "S_prepare" -> "S_apply"
      [] p = "S_apply" -> "S_serialize"
      [] p = "S_serialize" -> "S_delete"
      [] p = "S_delete" -> "S_flush"
      [] p = "S_flush" -> "U_prepare"
      [] p = "U_prepare" -> "U_apply"
      [] p = "U_apply" -> "U_serialize"
      [] p = "U_serialize" -> "U_delete"
      [] p = "U_delete" -> "U_flush"
      [] p = "U_flush" -> "First"

\* prepare_children: queue an insert of ChildrenPrefab::from_children for
\* every PrefabMarker entity without SceneAutoChild that has Children.
prepare_children_cmds(w) ==
    LET order == Ordered(PrepareQuery(w))
    IN [i \in 1..Len(order) |-> InsertCmd(order[i], from_children(w[order[i]].children))]

prepare_children ==
    /\ pc \in {"S_prepare", "U_prepare"}
    /\ cmds' = cmds \o prepare_children_cmds(world)
    /\ snap' = world
    /\ pc' = NextPc(pc)
    /\ UNCHANGED <<world, registry, config, state, next, events_a, events_b, tasks,
                   cache, log, toasts, builds, sent, saves, entries, runs, grown, done,
                   ioVars, closureVars>>

\* apply_deferred, and the flush of the queued commands at the end of a
\* schedule, which completes the chain.
FlushDone(p, old) ==
    CASE p = "S_flush" -> "scene"
      [] p = "U_flush" -> "prefab"
      [] OTHER -> old

apply_deferred ==
    /\ pc \in {"S_apply", "S_flush", "U_apply", "U_flush"}
    /\ world' = ApplyCommands(world, cmds)
    /\ cmds' = <<>>
    /\ runs' = IF pc = "S_flush" THEN runs + 1 ELSE runs
    /\ done' = FlushDone(pc, done)
    /\ pc' = NextPc(pc)
    /\ UNCHANGED <<registry, config, state, next, events_a, events_b, tasks, cache,
                   log, toasts, builds, snap, sent, saves, entries, grown,
                   ioVars, closureVars>>

\* delete_prepared_children: queue a remove of ChildrenPrefab for every
\* entity that has one.
\* Mutant of delete_prepared_children_cmds: the teardown reuses the filter
\* of prepare_children instead of With<ChildrenPrefab>.
delete_only_prepared_roots_cmds(w) ==
    LET order == Ordered(PrepareQuery(w))
    IN [i \in 1..Len(order) |-> RemoveCmd(order[i])]

delete_prepared_children_cmds(w) ==
    LET order == Ordered(PreparedQuery(w))
    IN [i \in 1..Len(order) |-> RemoveCmd(order[i])]

delete_prepared_children ==
    /\ pc \in {"S_delete", "U_delete"}
    /\ cmds' = cmds \o delete_prepared_children_cmds(world)
    /\ pc' = NextPc(pc)
    /\ UNCHANGED <<world, registry, config, state, next, events_a, events_b, tasks,
                   cache, log, toasts, builds, snap, sent, saves, entries, runs, grown, done,
                   ioVars, closureVars>>

\* --------------------------------------------------------- serialize_scene
EmptyWarning == "Saving empty scene"
SerializeError == "failed to serialize prefab"
Toast(kind, text) == [kind |-> kind, text |-> text]
LogLine(level, text) == [level |-> level, text |-> text]

\* The entities a whole-scene save extracts.
SceneEntities(w) == Ordered(PrefabQuery(w))

\* if entities.is_empty(): one Warning toast and one warn! line.
EmptyToasts(entities) ==
    IF entities = <<>> THEN <<Toast("Warning", EmptyWarning)>> ELSE <<>>
EmptyLog(entities) ==
    IF entities = <<>> THEN <<LogLine("warn", EmptyWarning)>> ELSE <<>>

\* Mutant of SceneTasks: an empty scene is not written.
SceneTasksSkipEmpty(res, cfg) ==
    IF res.ok /\ cfg.kind = "File" /\ res.str.ron # <<>>
    THEN <<WriteTask(cfg.path, res.str)>>
    ELSE <<>>

\* Mutant of SceneCache: every configuration but File stores the scene.
SceneCacheUnlessFile(res, cfg, scene, old) ==
    IF res.ok /\ cfg.kind # "File" THEN Some(scene) ELSE old

\* Mutant of SceneCache: the scene is stored before the result is looked at.
SceneCacheBeforeResult(res, cfg, scene, old) ==
    IF cfg.kind = "MemoryCache" THEN Some(scene) ELSE old

\* Mutant of SceneTasks: the file is written whatever sink is configured.
SceneTasksAnySink(res, cfg) ==
    IF res.ok /\ cfg.kind # "None"
    THEN <<WriteTask(IF cfg.kind = "File" THEN cfg.path ELSE ScenePath, res.str)>>
    ELSE <<>>

\* if let Ok(str) = res: the sink chosen by config.path.
SceneTasks(res, cfg) ==
    IF res.ok /\ cfg.kind = "File" THEN <<WriteTask(cfg.path, res.str)>> ELSE <<>>
SceneCache(res, cfg, scene, old) ==
    IF res.ok /\ cfg.kind = "MemoryCache" THEN Some(scene) ELSE old

\* else if let Err(e) = res: one Error toast and one error! line.
ErrorToasts(res) ==
    IF res.ok THEN <<>> ELSE <<Toast("Error", SerializeError)>>
ErrorLog(res) ==
    IF res.ok THEN <<>> ELSE <<LogLine("error", SerializeError)>>

\* Mutant of SceneNextState: the return to Idle sits inside the Ok branch.
SceneNextStateOnSuccess(res) == IF res.ok THEN "Idle" ELSE "None"

\* NextState<SaveState>.set(SaveState::Idle), on every path.
SceneNextState(res) == "Idle"

serialize_scene ==
    /\ pc = "S_serialize"
    /\ LET entities == SceneEntities(world)
           allow == allow_types(registry)
           scene == BuildScene(world, Range(entities), allow)
           res == serialize_ron(scene)
       IN /\ toasts' = toasts \o EmptyToasts(entities) \o ErrorToasts(res)
          /\ log' = log \o EmptyLog(entities) \o ErrorLog(res)
          /\ tasks' = tasks \o SceneTasks(res, config)
          /\ cache' = SceneCache(res, config, scene, cache)
          /\ next' = SceneNextState(res)
          /\ builds' = Append(builds, BuildRecord("scene", 0, entities, allow, scene, res.ok, config))
    /\ pc' = NextPc(pc)
    /\ UNCHANGED <<world, registry, config, state, events_a, events_b, cmds, snap,
                   sent, saves, entries, runs, grown, done,
                   ioVars, closureVars>>

\* -------------------------------------------------------- serialize_prefab
\* events.get_reader() is a new reader: it reads every event still held in
\* the two buffers, the older buffer first.
ReadEvents(a, b) == a \o b

\* Mutant of PrefabEntities: the vector is filled from every hierarchy of
\* the map, not only from the requested entity.
RECURSIVE CollectAll(_, _, _)
CollectAll(cmap, keys, entities) ==
    IF keys = <<>>
    THEN entities
    ELSE CollectAll(cmap, Tail(keys), add_children_recursive(cmap, Head(keys), entities))
PrefabEntitiesOfAll(cmap, entity) ==
    CollectAll(cmap, Ordered(DOMAIN cmap), <<entity>>)

\* vec![entity] followed by add_children_recursive.
PrefabEntities(cmap, entity) == add_children_recursive(cmap, entity, <<entity>>)

PrefabSink(name) == [kind |-> "File", path |-> PrefabPath(name)]

PrefabTasks(res, name) ==
    IF res.ok THEN <<WriteTask(PrefabPath(name), res.str)>> ELSE <<>>

\* The body of the loop for one event.  world.get::<Name>(entity).unwrap()
\* panics when the entity has no Name.
ProcessEvent(w, reg, cmap, acc, entity) ==
    IF w[entity].name = None
    THEN [acc EXCEPT !.panicked = TRUE]
    ELSE LET name == w[entity].name[1]
             entities == PrefabEntities(cmap, entity)
             allow == allow_types(reg)
             prefab == BuildScene(w, Range(entities), allow)
             res == serialize_ron(prefab)
         IN [tasks |-> acc.tasks \o PrefabTasks(res, name),
             log |-> acc.log \o ErrorLog(res),
             builds |-> Append(acc.builds,
                               BuildRecord("prefab", entity, entities, allow, prefab,
                                           res.ok, PrefabSink(name))),
             panicked |-> FALSE]

RECURSIVE ProcessEvents(_, _, _, _, _)
ProcessEvents(w, reg, cmap, acc, evs) ==
    IF evs = <<>> \/ acc.panicked
    THEN acc
    ELSE ProcessEvents(w, reg, cmap, ProcessEvent(w, reg, cmap, acc, Head(evs)), Tail(evs))

serialize_prefab ==
    /\ pc = "U_serialize"
    /\ LET acc == ProcessEvents(world, registry, children_map(world),
                                [tasks |-> tasks, log |-> log, builds |-> builds,
                                 panicked |-> FALSE],
                                ReadEvents(events_a, events_b))
       IN /\ tasks' = acc.tasks
          /\ log' = acc.log
          /\ builds' = acc.builds
          /\ pc' = IF acc.panicked THEN "panicked" ELSE NextPc(pc)
    /\ UNCHANGED <<world, registry, config, state, next, events_a, events_b, cmds,
                   cache, toasts, snap, sent, saves, entries, runs, grown, done,
                   ioVars, closureVars>>

\* ------------------------------------------------------------------ Next
Next ==
    \/ \E e \in Entity : SendPrefabMade(e)
    \/ \E cfg \in SaveConfigs : RequestSave(cfg)
    \/ RegisterTypes
    \/ First
    \/ StateTransition
    \/ prepare_children
    \/ apply_deferred
    \/ serialize_scene
    \/ serialize_prefab
    \/ delete_prepared_children

Spec == Init /\ [][Next]_vars

\* ============================== add_children_recursive, one call at a time
\* The entities the collector is tried on, and the largest number of
\* parent-child links of an index.
Node == 1..(NumEntities + 1)
Links == {l \in Node \X Node : l[1] # l[2]}
LinkLists ==
    {ls \in UNION {[1..n -> Links] : n \in 0..MaxLinks} :
        \A i, j \in DOMAIN ls : i # j => ls[i] # ls[j]}

\* The children of p in the order the links list them.
ChildrenIn(ls, p) ==
    LET own == SelectSeq(ls, LAMBDA l : l[1] = p)
    IN  [i \in 1..Len(own) |-> own[i][2]]

\* children_iter: a HashMap from each entity that has children to them.
IndexOf(ls) == [p \in {l[1] : l \in Range(ls)} |-> ChildrenIn(ls, p)]

\* The call stack is exhausted when a call is nested deeper than any chain
\* of distinct entities can be.
StackLimit == Cardinality(Node) + 1

Frame(entity, i) == [entity |-> entity, i |-> i]
Top == c_stack[Len(c_stack)]
Pop == SubSeq(c_stack, 1, Len(c_stack) - 1)
ReplaceTop(f) == [c_stack EXCEPT ![Len(c_stack)] = f]

\* serialize_prefab, one event: vec![entity], then the outermost call.
InitClosure ==
    /\ HostInit /\ world = MakeWorld("pair", FALSE, [e \in Entity |-> "root"], "none")
    /\ registry = MinimalRegistry
    /\ IoIdle
    /\ c_start \in Node
    /\ \E ls \in LinkLists : c_index = IndexOf(ls)
    /\ c_stack = <<Frame(c_start, 0)>>
    /\ c_out = <<c_start>>
    /\ c_pc = "run"

\* A call begins: if let Some(children) = children_iter.get(&entity), then
\* entities.extend(children); otherwise the call returns.
Enter ==
    /\ c_pc = "run" /\ Top.i = 0 /\ Len(c_stack) <= StackLimit
    /\ IF Top.entity \in DOMAIN c_index
       THEN /\ c_out' = c_out \o c_index[Top.entity]
            /\ c_stack' = ReplaceTop(Frame(Top.entity, 1))
            /\ c_pc' = "run"
       ELSE /\ c_out' = c_out
            /\ c_stack' = Pop
            /\ c_pc' = IF Pop = <<>> THEN "done" ELSE "run"
    /\ UNCHANGED <<hostVars, ioVars, c_start, c_index>>

\* for child in children.iter(): the call for the next child.
Recurse ==
    /\ c_pc = "run" /\ Top.i >= 1 /\ Top.i <= Len(c_index[Top.entity])
    /\ c_stack' = Append(ReplaceTop(Frame(Top.entity, Top.i + 1)),
                         Frame(c_index[Top.entity][Top.i], 0))
    /\ UNCHANGED <<hostVars, ioVars, c_start, c_index, c_out, c_pc>>

\* The loop is over: the call returns.
Return ==
    /\ c_pc = "run" /\ Top.i >= 1 /\ Top.i > Len(c_index[Top.entity])
    /\ c_stack' = Pop
    /\ c_pc' = IF Pop = <<>> THEN "done" ELSE "run"
    /\ UNCHANGED <<hostVars, ioVars, c_start, c_index, c_out>>

\* Nothing in the function stops a chain of calls that keeps revisiting an
\* entity: the calls nest until the stack of the thread is exhausted.
Overflow ==
    /\ c_pc = "run" /\ Top.i = 0 /\ Len(c_stack) > StackLimit
    /\ c_pc' = "overflow"
    /\ UNCHANGED <<hostVars, ioVars, c_start, c_index, c_stack, c_out>>

NextClosure == Enter \/ Recurse \/ Return \/ Overflow

SpecClosure == InitClosure /\ [][NextClosure]_vars

\* ==================================== the host with its background writes
\* The steps of the tasks of the IoTaskPool touch the files only and the
\* host never reads a file, so a task's step commutes with the host's steps
\* of a frame: the tasks are stepped between two frames.  At most MaxWrites
\* of the spawned tasks are followed; the others stay pending.
\*
\* str.as_bytes(): the encoded scene as a stream, one piece for the head of
\* the document and one per entity of the scene.
Piece(kind, body) == [kind |-> kind, body |-> body]
as_bytes(str) ==
    <<Piece("head", <<>>)>> \o [k \in 1..Len(str.ron) |-> Piece("entity", <<str.ron[k]>>)]

\* The tasks that have returned or panicked.
Returned == {written[k].task : k \in DOMAIN written}

\* A write of buf at the start of a file that holds content: the file keeps
\* what it held beyond the end of buf.
Overlay(content, buf) == buf \o SubSeq(content, Len(buf) + 1, Len(content))

WriteError == "Error while writing scene to file"

\* Outcome of a task: what its write call put in the file.
Outcome(i, ok, put) == [task |-> i, ok |-> ok, put |-> put]

\* OpenOptions create(true).truncate(true).write(true).open(&path), and
\* File::create(&path): the file exists and is empty; the task holds a
\* handle positioned at the start.
OpenFile(i) ==
    /\ pc = "First"
    /\ i \in DOMAIN tasks /\ i \notin opened /\ i \notin Returned
    /\ Cardinality(opened \cup Returned) < MaxWrites
    /\ opened' = opened \cup {i}
    /\ files' = [files EXCEPT ![tasks[i].path] = Some(<<>>)]
    /\ UNCHANGED <<hostVars, written, mutated, closureVars>>

\* file.write(str.as_bytes()): one write call, which writes the first n
\* bytes of the buffer and returns Ok(n); the count is not looked at.  Then
\* the task returns (its info! line is not a line of log).
WriteFile(i, n) ==
    /\ pc = "First"
    /\ i \in opened /\ i \notin Returned
    /\ n \in 0..Len(as_bytes(tasks[i].bytes))
    /\ LET put == SubSeq(as_bytes(tasks[i].bytes), 1, n)
       IN /\ files' = [files EXCEPT ![tasks[i].path] =
                            Some(Overlay(files[tasks[i].path][1], put))]
          /\ written' = Append(written, Outcome(i, TRUE, put))
    /\ UNCHANGED <<hostVars, opened, mutated, closureVars>>

\* The open or the write returns Err: the scene task logs an error! line
\* (inspect_err), and expect panics the task.  Nothing is written.
TaskFails(i) ==
    /\ pc = "First"
    /\ i \in DOMAIN tasks /\ i \notin Returned
    /\ i \in opened \/ Cardinality(opened \cup Returned) < MaxWrites
    /\ written' = Append(written, Outcome(i, FALSE, <<>>))
    /\ log' = IF tasks[i].path = ScenePath
              THEN Append(log, LogLine("error", WriteError))
              ELSE log
    /\ UNCHANGED <<world, registry, config, state, next, pc, events_a, events_b, cmds,
                   tasks, cache, toasts, builds, snap, sent, saves, entries, runs,
                   grown, done, files, opened, mutated, closureVars>>

\* Another system of the host changes the graph between two frames: it
\* takes the PrefabMarker off an entity.
Mutate(e) ==
    /\ pc = "First"
    /\ mutated < MaxMutations
    /\ world[e].marker
    /\ world' = [world EXCEPT ![e].marker = FALSE]
    /\ mutated' = mutated + 1
    /\ UNCHANGED <<registry, config, state, next, pc, events_a, events_b, cmds,
                   tasks, cache, log, toasts, builds, snap, sent, saves, entries,
                   runs, grown, done, files, opened, written, closureVars>>

\* The host starts on a graph of prefab roots, one the parent of the others.
InitIO ==
    /\ HostInit
    /\ world = MakeWorld("star", FALSE, [e \in Entity |-> "root"], "none")
    /\ registry = MinimalRegistry
    /\ IoIdle
    /\ ClosureIdle

NextIO ==
    \/ Next
    \/ \E i \in DOMAIN tasks : OpenFile(i)
    \/ \E i \in DOMAIN tasks : \E n \in 0..(NumEntities + 1) : WriteFile(i, n)
    \/ \E i \in DOMAIN tasks : TaskFails(i)
    \/ \E e \in Entity : Mutate(e)

SpecIO == InitIO /\ [][NextIO]_vars

\* ================================================================ claims
\* No chain is running: the host is between two chains.
Quiet == pc \in {"First", "StateTransition", "S_prepare", "U_prepare"}
PassCompleted == done # "none" /\ Quiet

SceneBuilds == {i \in DOMAIN builds : builds[i].kind = "scene"}
PrefabBuilds == {i \in DOMAIN builds : builds[i].kind = "prefab"}

\* C1: once a chain (whole-scene or per-entity) has completed, whether the
\* encoder succeeded or failed, no entity holds a ChildrenPrefab; in
\* particular no root that had children when the chain started.
C1_NoRecordAfterPass ==
    PassCompleted => \A e \in Entity : world[e].cp = None

\* C1 witness: both chains have completed, a whole-scene build failed in the
\* encoder, a per-entity build succeeded, and a root had children (so it
\* was annotated) when the last chain started.
C1_Witness ==
    /\ PassCompleted
    /\ \E i \in SceneBuilds : ~builds[i].ok
    /\ \E i \in PrefabBuilds : builds[i].ok
    /\ PrepareQuery(snap) # {}

\* C2 (as claimed): a completed chain leaves the live graph exactly as it
\* was when the chain started, for every starting graph.
C2_GraphUnchanged ==
    PassCompleted => world = snap

\* The graph w without its ChildrenPrefab records.
WithoutRecords(w) == [e \in Entity |-> [w[e] EXCEPT !.cp = None]]

\* C2 (amended): a completed chain leaves every attached data item other
\* than ChildrenPrefab as it was when the chain started and leaves no
\* ChildrenPrefab at all, so a record carried before the chain is lost.
C2_UnchangedButRecords ==
    PassCompleted => world = WithoutRecords(snap)

\* C2 witness: a chain has completed on a graph in which an entity carried a
\* ChildrenPrefab before the chain and another one is an auto child.
C2_Witness ==
    /\ PassCompleted
    /\ \E e \in Entity : snap[e].cp # None
    /\ \E e \in Entity : snap[e].auto

\* C3: every entry into Save runs the whole-scene chain exactly once (one
\* build, one completed chain per entry, never more entries than external
\* requests), the chain leaves the return to Idle requested, and the next
\* state transition takes the machine back to Idle.
C3_State ==
    /\ entries <= saves
    /\ Cardinality(SceneBuilds) <= entries
    /\ runs <= entries
    /\ pc \notin {"S_prepare", "S_apply", "S_serialize", "S_delete", "S_flush"}
          => runs = entries /\ Cardinality(SceneBuilds) = entries
    /\ pc \in {"S_prepare", "S_apply", "S_serialize"}
          => Cardinality(SceneBuilds) = entries - 1 /\ runs = entries - 1
    /\ state = "Save" /\ pc \notin {"S_prepare", "S_apply", "S_serialize"}
          => next = "Idle"
    /\ state = "Save" =>
          pc \notin {"First", "StateTransition"} \/ runs = entries

\* C3, the step part: a state transition taken in Save enters Idle.
C3_Step ==
    (pc = "StateTransition" /\ pc' # pc /\ state = "Save") => state' = "Idle"

\* C3: the state part holds in every state and the return to Idle at every
\* state transition taken from Save.
C3_OncePerEntry == [](C3_State) /\ [][C3_Step]_vars

\* C3 witness: the machine is back in Idle after an entry whose encoding
\* failed, an entry whose encoding succeeded and an entry with an empty
\* selection each being possible; here the failed one.
C3_Witness ==
    /\ state = "Idle"
    /\ entries = 1
    /\ runs = 1
    /\ \E i \in SceneBuilds : ~builds[i].ok

\* The builds of the chain that is running, while the graph is still as the
\* builder saw it (the teardown has not been applied).
Fresh ==
    CASE pc = "S_delete" -> {Len(builds)}
      [] pc = "U_delete" ->
            (Len(builds) - Len(ReadEvents(events_a, events_b)) + 1)..Len(builds)
      [] OTHER -> {}

\* The identifiers of the entities of a scene.
SceneIds(scene) == {scene[k].entity : k \in 1..Len(scene)}

\* S and everything below it in the full children index of w.
RECURSIVE Reach(_, _)
Reach(w, S) ==
    LET more == S \cup {c \in Entity : \E e \in S : c \in Range(w[e].children)}
    IN IF more = S THEN S ELSE Reach(w, more)

\* C4 (as claimed): in a whole-scene save no auto child is selected, and an
\* auto child reachable through the children index from a selected root is
\* an entity of the scene.
C4_AutoChildAppears ==
    \A i \in Fresh \cap SceneBuilds :
        \A a \in Entity :
            world[a].auto =>
                /\ a \notin Range(builds[i].entities)
                /\ a \in Reach(world, Range(builds[i].entities))
                      => a \in SceneIds(builds[i].scene)

\* C4 (amended): in a whole-scene save the entities of the scene are the
\* PrefabMarker entities without SceneAutoChild and no others: an auto child
\* is neither selected nor an entity of the scene, and a child of a selected
\* root is only referenced, by its identifier, in the root's ChildrenPrefab.
C4_AutoChildOnlyReferenced ==
    \A i \in Fresh \cap SceneBuilds :
        LET scene == builds[i].scene
        IN /\ \A a \in Entity : world[a].auto => a \notin SceneIds(scene)
           /\ \A e \in Entity :
                 world[e].marker /\ ~world[e].auto => e \in SceneIds(scene)
           /\ \A k \in 1..Len(scene) :
                 \A c \in Range(world[scene[k].entity].children) :
                     scene[k].cp # None /\ c \in Range(scene[k].cp[1])

\* C4 witness: a whole-scene build whose scene holds a root one of whose
\* children is an auto child carrying the PrefabMarker.
C4_Witness ==
    \E i \in Fresh \cap SceneBuilds :
        \E r \in SceneIds(builds[i].scene), a \in Entity :
            /\ world[a].auto
            /\ world[a].marker
            /\ a \in Range(world[r].children)

\* C5: a scene (whole-scene or per-entity) holds, for each selected entity
\* and no other, exactly the attached data whose type is in the allow-list
\* read from the registry in that operation, with the values of the live
\* graph; the ChildrenPrefab type is always in the registry.
C5_AllowListExact ==
    /\ ChildrenPrefabType \in registry
    /\ \A i \in Fresh :
          LET b == builds[i]
          IN /\ b.allow = registry
             /\ SceneIds(b.scene) = Range(b.entities)
             /\ \A k \in 1..Len(b.scene) :
                   LET item == b.scene[k]
                       e == item.entity
                   IN /\ \A t \in ComponentTypes :
                            t \in item.types <=> (HasComponent(world, e, t) /\ t \in registry)
                      /\ item.name = IF "Name" \in registry THEN world[e].name ELSE None
                      /\ item.cp = world[e].cp

\* C5 witness: a fresh scene in which a selected entity has one attached
\* item that is in the allow-list and one that is not.
C5_Witness ==
    \E i \in Fresh :
        \E k \in 1..Len(builds[i].scene) :
            \E t1, t2 \in ComponentTypes :
                /\ t1 \in builds[i].scene[k].types
                /\ t2 \notin registry
                /\ HasComponent(world, builds[i].scene[k].entity, t2)

\* The entity maps of a loader: injective.
Mappers == Permutations(Entity)

Count(seq, Test(_)) == Cardinality({i \in DOMAIN seq : Test(seq[i])})
IsWarningToast(t) == t.kind = "Warning"
IsErrorToast(t) == t.kind = "Error"
IsWarnLine(l) == l.level = "warn"
IsErrorLine(l) == l.level = "error"
IsSceneWrite(t) == t.path = ScenePath
IsPrefabWrite(t) == t.path # ScenePath

EmptySceneBuilds == {i \in SceneBuilds : builds[i].entities = <<>>}
FailedBuilds == {i \in DOMAIN builds : ~builds[i].ok}

\* C7: a whole-scene save that selects nothing succeeds in the encoder,
\* builds the empty scene and hands it to the configured sink (a write of
\* the encoded empty scene, or the empty scene in the cache slot), emits one
\* Warning toast and one warn! line and no error, and requests Idle.
C7_EmptySceneSaved ==
    /\ Count(toasts, IsWarningToast) = Cardinality(EmptySceneBuilds)
    /\ Count(log, IsWarnLine) = Cardinality(EmptySceneBuilds)
    /\ \A i \in Fresh \cap EmptySceneBuilds :
          /\ builds[i].ok
          /\ builds[i].scene = <<>>
          /\ next = "Idle"
          /\ Last(toasts) = Toast("Warning", EmptyWarning)
          /\ Last(log) = LogLine("warn", EmptyWarning)
          /\ config.kind = "File" =>
                /\ tasks # <<>>
                /\ Last(tasks) = WriteTask(config.path, [ron |-> <<>>])
                /\ Count(tasks, IsSceneWrite) =
                      Cardinality({j \in SceneBuilds :
                                      builds[j].ok /\ builds[j].cfg.kind = "File"})
          /\ config.kind = "MemoryCache" => cache = Some(<<>>)

\* C7 witness: a whole-scene build with no eligible root, the sink a file.
C7_Witness ==
    /\ Fresh \cap EmptySceneBuilds # {}
    /\ config.kind = "File"

\* The writes and the cache slot that the whole-scene builds so far call for.
RECURSIVE ExpectedSceneWrites(_)
ExpectedSceneWrites(bs) ==
    IF bs = <<>>
    THEN <<>>
    ELSE LET b == Head(bs)
         IN (IF b.kind = "scene" /\ b.ok /\ b.cfg.kind = "File"
             THEN <<WriteTask(b.cfg.path, [ron |-> b.scene])>>
             ELSE <<>>) \o ExpectedSceneWrites(Tail(bs))

RECURSIVE ExpectedCache(_, _)
ExpectedCache(bs, slot) ==
    IF bs = <<>>
    THEN slot
    ELSE LET b == Head(bs)
         IN ExpectedCache(Tail(bs),
                          IF b.kind = "scene" /\ b.ok /\ b.cfg.kind = "MemoryCache"
                          THEN Some(b.scene)
                          ELSE slot)

\* C8: a whole-scene save whose encoding fails dispatches no write and
\* leaves the cache slot alone (the writes and the slot are those of the
\* successful builds only), emits one Error toast and one error! line,
\* requests Idle, and its ChildrenPrefab records are removed all the same.
C8_EncodeFailurePersistsNothing ==
    /\ SelectSeq(tasks, IsSceneWrite) = ExpectedSceneWrites(builds)
    /\ cache = ExpectedCache(builds, None)
    /\ Count(toasts, IsErrorToast) = Cardinality(FailedBuilds \cap SceneBuilds)
    /\ Count(log, IsErrorLine) = Cardinality(FailedBuilds)
    /\ \A i \in Fresh \cap SceneBuilds \cap FailedBuilds :
          /\ next = "Idle"
          /\ Last(toasts) = Toast("Error", SerializeError)
          /\ Last(log) = LogLine("error", SerializeError)
    /\ (done = "scene" /\ pc = "U_prepare") => \A e \in Entity : world[e].cp = None

\* C8 witness: a whole-scene chain has completed whose encoding failed, on a
\* graph with an annotated root, the sink being the file or the cache.
C8_Witness ==
    /\ done = "scene"
    /\ pc = "U_prepare"
    /\ builds # <<>>
    /\ Last(builds).kind = "scene"
    /\ ~Last(builds).ok
    /\ Last(builds).cfg.kind # "None"
    /\ PrepareQuery(snap) # {}

\* The name of a named entity.
NameStr(e) == world[e].name[1]

\* C9 (as claimed): every per-entity request produces a write to the path
\* made of the directory, the separator, its entity's name and ".scn.ron".
C9_EveryRequestWrites ==
    \A i \in PrefabBuilds :
        \E j \in DOMAIN tasks :
            /\ tasks[j].path = PrefabsDir \o "\\" \o NameStr(builds[i].request) \o ".scn.ron"
            /\ tasks[j].bytes = [ron |-> builds[i].scene]

RECURSIVE ExpectedPrefabWrites(_)
ExpectedPrefabWrites(bs) ==
    IF bs = <<>>
    THEN <<>>
    ELSE LET b == Head(bs)
         IN (IF b.kind = "prefab" /\ b.ok
             THEN <<WriteTask(PrefabsDir \o "\\" \o NameStr(b.request) \o ".scn.ron",
                              [ron |-> b.scene])>>
             ELSE <<>>) \o ExpectedPrefabWrites(Tail(bs))

\* C9 (amended): every per-entity request whose scene the encoder accepts
\* dispatches one write, in request order, to the path made of the
\* directory, the separator, its entity's name and ".scn.ron", carrying the
\* encoding of its own scene; a request whose encoding fails dispatches no
\* write; each scene holds the requested entity and only entities of that
\* entity's own closure, each with its own attached data.
C9_RequestsWriteOwnClosure ==
    /\ SelectSeq(tasks, IsPrefabWrite) = ExpectedPrefabWrites(builds)
    /\ \A i \in PrefabBuilds :
          /\ builds[i].request \in SceneIds(builds[i].scene)
          /\ SceneIds(builds[i].scene) \subseteq Reach(world, {builds[i].request})
    /\ \A i \in Fresh \cap PrefabBuilds :
          \A k \in 1..Len(builds[i].scene) :
              LET item == builds[i].scene[k]
              IN /\ item.cp = world[item.entity].cp
                 /\ item.name \in {None, world[item.entity].name}
                 /\ \A t \in item.types : HasComponent(world, item.entity, t)

\* C9 witness: two requests of one cycle for entities with distinct names,
\* both encoded and written, to two paths, with different scenes.
C9_Witness ==
    /\ pc = "U_delete"
    /\ \E i, j \in Fresh \cap PrefabBuilds :
          /\ i # j
          /\ builds[i].ok
          /\ builds[j].ok
          /\ NameStr(builds[i].request) # NameStr(builds[j].request)
          /\ SceneIds(builds[i].scene) # SceneIds(builds[j].scene)
          /\ \E a, b \in DOMAIN tasks : tasks[a].path # tasks[b].path

\* C10 (as claimed): every PrefabMade event is processed exactly once: there
\* are never more per-entity builds than events sent, and once the buffers
\* are empty at the end of a frame there are exactly as many.
C10_EachEventOnce ==
    /\ Cardinality(PrefabBuilds) <= sent
    /\ (pc = "First" /\ events_a = <<>> /\ events_b = <<>>)
          => Cardinality(PrefabBuilds) = sent

\* ------------------------------------------------------------------ C11
\* The index of the example: A has the children B, C and C has the child D.
ExampleIndex == IndexOf(<<<<1, 2>>, <<1, 3>>, <<3, 4>>>>)

\* Every entity after the first follows an entity that lists it as a child.
AfterParent(index, out) ==
    \A k \in 2..Len(out) :
        \E j \in 1..(k - 1) :
            out[j] \in DOMAIN index /\ out[k] \in Range(index[out[j]])

\* C11: when the collector returns, its output starts with the start
\* entity, is the list "append all children of the current entity in index
\* order, then recurse into each child in index order", lists every entity
\* after its parent, and is [A, B, C, D] on the index A[B, C], C[D].
C11_ClosureOrder ==
    c_pc = "done" =>
        /\ c_out[1] = c_start
        /\ c_out = add_children_recursive(c_index, c_start, <<c_start>>)
        /\ AfterParent(c_index, c_out)
        /\ (c_index = ExampleIndex /\ c_start = 1) => c_out = <<1, 2, 3, 4>>

C11_Witness ==
    c_pc = "done" /\ c_index = ExampleIndex /\ c_start = 1 /\ c_out = <<1, 2, 3, 4>>

\* ------------------------------------------------------------------ C12
\* C12: every internal failure, a per-entity request for an entity without
\* a name included, is caught and logged: the host is never halted, so the
\* chain it was running always goes on to its teardown.
C12_FailuresCaught == pc # "panicked"

\* ------------------------------------------------------------------ C13
\* prepare_children has run and the barrier after it has applied its commands.
Annotated == pc \in {"S_serialize", "U_serialize"}

\* C13: when no entity held a ChildrenPrefab before, after the annotator and
\* its barrier an entity holds one if and only if it has PrefabMarker, has
\* no SceneAutoChild and has at least one child, and the record's list is
\* the entity's child list, in order.
C13_RecordIffEligible ==
    (Annotated /\ \A e \in Entity : snap[e].cp = None) =>
        \A e \in Entity :
            /\ world[e].cp # None <=>
                    (world[e].marker /\ ~world[e].auto /\ world[e].children # <<>>)
            /\ world[e].cp # None => world[e].cp = Some(world[e].children)

\* C13 witness: after the barrier a root holds the record of its children,
\* and an auto child that has a child of its own holds none.
C13_Witness ==
    /\ Annotated
    /\ \A e \in Entity : snap[e].cp = None
    /\ \E e \in Entity : world[e].cp = Some(world[e].children)
    /\ \E e \in Entity :
            world[e].auto /\ world[e].children # <<>> /\ world[e].cp = None

RECURSIVE MarkerReach(_, _)
MarkerReach(w, S) ==
    LET more == S \cup {c \in Entity :
                            \E e \in S : w[e].marker /\ c \in Range(w[e].children)}
    IN IF more = S THEN S ELSE MarkerReach(w, more)

C15_SuccessSink ==
    [][(pc = "S_serialize" /\ pc' = "S_delete" /\ Last(builds').ok) =>
          /\ Len(builds') = Len(builds) + 1
          /\ config.kind = "File" =>
                /\ tasks' = Append(tasks, WriteTask(config.path,
                                                    [ron |-> Last(builds').scene]))
                /\ cache' = cache
          /\ config.kind = "MemoryCache" =>
                /\ cache' = Some(Last(builds').scene)
                /\ tasks' = tasks]_vars

\* C15 witness: the second successful whole-scene save into the cache has
\* just replaced the slot's scene, a scene with entities, and no write was
\* ever spawned.
C15_Witness ==
    /\ pc = "S_delete"
    /\ Cardinality({i \in SceneBuilds :
                        builds[i].ok /\ builds[i].cfg.kind = "MemoryCache"}) = 2
    /\ Last(builds).scene # <<>>
    /\ cache = Some(Last(builds).scene)
    /\ tasks = <<>>

\* ------------------------------------------------------------------ C20
\* C20: a whole-scene save run while SaveConfig.path is None still builds
\* and encodes the scene, spawns no write and leaves the cache slot as it
\* was, emits no toast and no log line beyond those of an empty selection
\* or a failed encoding, and requests Idle.
C20_NoSinkPersistsNothing ==
    [][(pc = "S_serialize" /\ pc' = "S_delete" /\ config.kind = "None") =>
          /\ Len(builds') = Len(builds) + 1
          /\ Last(builds').kind = "scene"
          /\ Last(builds').scene =
                BuildScene(world, PrefabQuery(world), allow_types(registry))
          /\ Last(builds').ok = serialize_ron(Last(builds').scene).ok
          /\ tasks' = tasks
          /\ cache' = cache
          /\ (Last(builds').ok /\ Last(builds').scene # <<>>) =>
                (toasts' = toasts /\ log' = log)
          /\ Len(toasts') <= Len(toasts) + 1
          /\ Len(log') <= Len(log) + 1
          /\ next' = "Idle"]_vars

\* C20 witness: a save without a sink has built and encoded a scene with
\* entities while the cache slot held a scene of an earlier save; nothing
\* was logged or written, and the state is Idle again.
C20_Witness ==
    /\ state = "Idle" /\ next = "None"
    /\ Len(builds) = 2
    /\ builds[1].cfg.kind = "MemoryCache"
    /\ builds[2].cfg.kind = "None" /\ builds[2].kind = "scene"
    /\ builds[2].ok /\ builds[2].scene # <<>>
    /\ cache = Some(builds[1].scene)
    /\ tasks = <<>> /\ toasts = <<>> /\ log = <<>>

\* ------------------------------------------------------------------ C18
\* C18 (as claimed): two whole-scene saves of a graph that nothing outside
\* the pipelines changed in between (the registry is the same at both)
\* build identical scenes, which the encoder judges alike.
C18_BuildIdempotent ==
    \A i, j \in SceneBuilds :
        builds[i].allow = builds[j].allow =>
            /\ builds[i].entities = builds[j].entities
            /\ builds[i].scene = builds[j].scene
            /\ builds[i].ok = builds[j].ok

\* A scene without the ChildrenPrefab records of the entities that have no
\* children: those prepare_children did not attach.
WithoutLeftover(scene) ==
    [k \in DOMAIN scene |->
        IF world[scene[k].entity].children = <<>>
        THEN [scene[k] EXCEPT !.cp = None, !.types = @ \ {ChildrenPrefabType}]
        ELSE scene[k]]

\* C18 (amended): two whole-scene saves with the same registry and no
\* outside change in between build scenes that are identical except for a
\* ChildrenPrefab that a selected entity without children carried before
\* the first save: that record is in the first scene and not in the second.
\* (Stated of each save when it has built its scene, against every save
\* before it.)
C18_IdempotentButLeftover ==
    \A j \in Fresh \cap SceneBuilds :
        \A i \in SceneBuilds :
            (i < j /\ builds[i].allow = builds[j].allow) =>
                /\ builds[i].entities = builds[j].entities
                /\ WithoutLeftover(builds[i].scene) = WithoutLeftover(builds[j].scene)
                /\ builds[i].ok = builds[j].ok
                /\ builds[j].scene = WithoutLeftover(builds[j].scene)

\* C18 witness: the whole-scene save has run twice with nothing changed in
\* between, on a graph in which a root with two children and an entity
\* without children carried a ChildrenPrefab before; the first scene holds
\* the record of the childless entity and the second does not, and both
\* hold the record of the root's two children.
C18_Witness ==
    /\ Cardinality(SceneBuilds) = 2
    /\ \A i \in SceneBuilds :
          \E k \in DOMAIN builds[i].scene :
              builds[i].scene[k].cp # None /\ Len(builds[i].scene[k].cp[1]) = 2
    /\ \E i, j \in SceneBuilds :
          /\ i < j
          /\ builds[i].scene # WithoutLeftover(builds[i].scene)
          /\ builds[j].scene = WithoutLeftover(builds[j].scene)
    /\ grown = 0

\* ------------------------------------------------------------------ C16
\* C16: every spawned write carries the encoding of the scene as it was
\* built in the spawning frame, whatever happens to the graph afterwards,
\* and a write that returns has put exactly these bytes in its file.
C16_WrittenIsEncoding ==
    /\ SelectSeq(tasks, IsSceneWrite) = ExpectedSceneWrites(builds)
    /\ Len(SelectSeq(tasks, IsPrefabWrite)) =
            Cardinality({i \in PrefabBuilds : builds[i].ok})
    /\ \A k \in DOMAIN written :
          written[k].ok => written[k].put = as_bytes(tasks[written[k].task].bytes)

\* ------------------------------------------------------------------ C17
\* The spawned writes to path p, and the one among them that returned last.
WritesTo(p) == {i \in DOMAIN tasks : tasks[i].path = p}
LastReturned(p) ==
    LET ks == {k \in DOMAIN written : tasks[written[k].task].path = p}
    IN written[CHOOSE k \in ks : \A l \in ks : l <= k].task

\* The write call of task i wrote its whole buffer.
WroteAll(i) ==
    \E k \in DOMAIN written :
        /\ written[k].task = i
        /\ written[k].ok
        /\ written[k].put = as_bytes(tasks[i].bytes)

\* C17: when two or more spawned writes go to the same path, then once all
\* of them have returned the file holds the whole byte stream of the one
\* that returned last and nothing else, in whatever order their opens and
\* writes were taken (stated for writes that each wrote their whole buffer).
C17_LastWriteWins ==
    \A p \in Paths :
        (Cardinality(WritesTo(p)) >= 2 /\ \A i \in WritesTo(p) : WroteAll(i)) =>
            files[p] = Some(as_bytes(tasks[LastReturned(p)].bytes))

\* ------------------------------------------------------------------ C19
\* S and everything below it in the index.
RECURSIVE IndexReach(_, _)
IndexReach(index, S) ==
    LET more == S \cup UNION {Range(index[p]) : p \in S \cap DOMAIN index}
    IN IF more = S THEN S ELSE IndexReach(index, more)

\* No entity is listed as a child by two entities.
SingleParent(index) ==
    \A e \in Node : Cardinality({p \in DOMAIN index : e \in Range(index[p])}) <= 1

Occurrences(seq, e) == Cardinality({k \in DOMAIN seq : seq[k] = e})

\* The collector returned a list that holds the start entity and each
\* entity below it exactly once.
ListsEachOnce ==
    /\ Range(c_out) = IndexReach(c_index, {c_start})
    /\ \A e \in Range(c_out) : Occurrences(c_out, e) = 1

\* C19: the collector returns on every acyclic index, listing each entity
\* below the start exactly once when no entity has two parents, and on an
\* index with a cycle below the start it detects the cycle and fails: it
\* never nests its calls until the stack is exhausted.
C19_TerminatesOrDetects ==
    /\ c_pc # "overflow"
    /\ (c_pc = "done" /\ SingleParent(c_index)) => ListsEachOnce
====
